---- MODULE Spec2Model ----
(***************************************************************************)
(* Model of the jf-pushover-webhook relay (src/app/app.py): the Flask      *)
(* route handlers /health, /webhook, /jf-pushover-webhook and its legacy   *)
(* alias /pushover-webhook, with the helpers they call.                    *)
(*                                                                         *)
(* Conventions for Python values:                                          *)
(*   - a dict (os.environ, headers, payload) is a function whose DOMAIN    *)
(*     is the set of keys present;                                         *)
(*   - a string is a sequence of pieces, so that the code's lower(),       *)
(*     startswith(), endswith(), rstrip() and regex act on it; "" is <<>>; *)
(*   - a str | None is a sequence of length 0 (None) or 1 (the string).    *)
(*                                                                         *)
(* A handler runs as a sequence of steps, one per upstream call or file    *)
(* system call; st[r] holds its local variables, its position and a record *)
(* of what it has done.  The environment is read at request time and is    *)
(* changed only between requests: the application never writes it.         *)
(***************************************************************************)
EXTENDS Integers, Sequences, FiniteSets, TLC

VARIABLES env, files, st

vars == <<env, files, st>>

\* ------------------------------------------------------------------ bounds

\* Number of temporary file names the file system can hold at once.
MaxPaths == 2

\* ------------------------------------------------------------ Python values

\* A Python string is a sequence of pieces ("" is <<>>); a str | None is a
\* sequence of length 0 (None) or 1 (the string).
Nothing == <<>>
Some(v) == <<v>>

\* d.get(k) on a dict of strings.
Get(d, k) == IF k \in DOMAIN d THEN Some(d[k]) ELSE Nothing

\* Truthiness of a str | None: None and "" are falsy.
Truthy(o) == o # Nothing /\ o[1] # <<>>

\* a or b
Or(a, b) == IF Truthy(a) THEN a ELSE b

\* None in the fields of a response that hold a constant text or None, and
\* the mark of a JSON key the response body does not have.
None == "None"
NoKey == "<no key>"

\* str.lower() on one piece of a string.
LowerPiece(p) ==
    CASE p = "Bearer" -> "bearer"
      [] p = "BEARER" -> "bearer"
      [] p = "APPLICATION/JSON" -> "application/json"
      [] p = "Text/Plain" -> "text/plain"
      [] OTHER -> p

Lower(s) == [i \in 1..Len(s) |-> LowerPiece(s[i])]

StartsWith(s, prefix) ==
    Len(s) >= Len(prefix) /\ SubSeq(s, 1, Len(prefix)) = prefix

EndsWith(s, suffix) ==
    Len(s) >= Len(suffix) /\ SubSeq(s, Len(s) - Len(suffix) + 1, Len(s)) = suffix

RECURSIVE RStrip(_, _)
RStrip(s, ch) ==
    IF s # <<>> /\ s[Len(s)] = ch THEN RStrip(SubSeq(s, 1, Len(s) - 1), ch) ELSE s

\* Number of leading pieces of s that are whitespace (regex \s).
RECURSIVE LeadingSpaces(_)
LeadingSpaces(s) ==
    IF s # <<>> /\ s[1] \in {" ", "\t"} THEN 1 + LeadingSpaces(Tail(s)) ELSE 0

\* ------------------------------------------------------------------ helpers

EnvNames == {"AUTH_TOKEN", "PUSHOVER_API_TOKEN", "PUSHOVER_USER_KEY", "JELLYFIN_BASE_URL"}

\* _env(): the four names read from os.environ (a dict e), None when unset.
Env(e) == [k \in EnvNames |-> Get(e, k)]

\* _extract_bearer_token(): re.match(r"Bearer\s+(.+)", auth, IGNORECASE) on
\* the Authorization header ("" when absent); group 1 or None.  \s+ is
\* greedy and gives one blank back when nothing else is left for (.+).
ExtractBearerToken(headers) ==
    LET auth == IF "Authorization" \in DOMAIN headers THEN headers["Authorization"] ELSE <<>>
        rest == Tail(auth)
        k == LeadingSpaces(rest)
        after == SubSeq(rest, k + 1, Len(rest))
    IN  IF auth = <<>> \/ LowerPiece(auth[1]) # "bearer" \/ k = 0 THEN Nothing
        ELSE IF after # <<>> THEN Some(after)
        ELSE IF k >= 2 THEN Some(<<" ">>)
        ELSE Nothing

\* Fault injection: _require_bearer_auth without its "not expected" branch
\* taken as a failure, i.e. auth switched off while no token is configured.
RequireBearerAuthLax(expected, headers) ==
    LET supplied == ExtractBearerToken(headers)
    IN  IF ~Truthy(expected) THEN [ok |-> TRUE, err |-> None]
        ELSE IF ~Truthy(supplied)
             THEN [ok |-> FALSE, err |-> "Missing or invalid Authorization header"]
        ELSE [ok |-> supplied = expected, err |-> None]

\* _require_bearer_auth(expected): (ok, err).
RequireBearerAuth(expected, headers) ==
    LET supplied == ExtractBearerToken(headers)
    IN  IF ~Truthy(expected) THEN [ok |-> FALSE, err |-> "Service not configured"]
        ELSE IF ~Truthy(supplied)
             THEN [ok |-> FALSE, err |-> "Missing or invalid Authorization header"]
        ELSE [ok |-> supplied = expected, err |-> None]

\* A Flask response made by a handler: jsonify(body) with a status and
\* extra headers.
JsonResponse(status, body) ==
    [status |-> status, body |-> body, headers |-> <<>>, byHandler |-> TRUE]

\* What the caller gets when an exception leaves the view function: the
\* framework's own 500 page, no JSON body.
EscapedResponse(exc) ==
    [status |-> 500, body |-> <<>>, headers |-> <<>>, byHandler |-> FALSE]

\* The media type of a Content-Type value: its pieces before the parameters,
\* lower-cased (werkzeug's request.mimetype).
RECURSIVE Mimetype(_)
Mimetype(ct) ==
    IF ct = <<>> \/ ct[1] \in {"; charset=utf-8"} THEN <<>>
    ELSE <<LowerPiece(ct[1])>> \o Mimetype(Tail(ct))

\* request.get_json(silent=True): None unless the media type is JSON and the
\* body parses; the JSON value null is None as well.
GetJsonSilent(ct, body) ==
    IF Mimetype(ct) # <<"application/json">> THEN [tag |-> "none", data |-> <<>>]
    ELSE CASE body.kind = "object" -> [tag |-> "dict", data |-> body.fields]
           [] body.kind = "list" -> [tag |-> "list", data |-> <<>>]
           [] OTHER -> [tag |-> "none", data |-> <<>>]

\* request.form.to_dict(): the decoded form fields.  A body that is not
\* form-encoded decodes to keys no handler reads.
FormToDict(body) == IF body.kind = "form" THEN body.fields ELSE <<>>

\* _parse_payload_by_content_type(): tag "dict" (a dict payload), "list"
\* or "null" (a JSON value that is no dict), "error" (the (response, status)
\* tuple) or "raise" (an exception leaves the function).
ParsePayloadByContentType(content_type, body) ==
    LET ct == Lower(IF content_type = Nothing THEN <<>> ELSE content_type[1])
        payload(tag, data) ==
            [tag |-> tag, data |-> data, resp |-> JsonResponse(200, <<>>), exc |-> "-"]
        error(status, json) ==
            [tag |-> "error", data |-> <<>>, resp |-> JsonResponse(status, json), exc |-> "-"]
    IN  IF StartsWith(ct, <<"application/json">>)
        THEN LET data == GetJsonSilent(content_type[1], body)
             IN  IF data.tag = "none"
                 THEN error(400, [error |-> "Invalid JSON payload"])
                 ELSE payload(data.tag, data.data)
        ELSE IF StartsWith(ct, <<"application/x-www-form-urlencoded">>)
        THEN payload("dict", FormToDict(body))
        ELSE IF StartsWith(ct, <<"text/plain">>)
        THEN CASE body.kind = "badutf8" ->
                    [tag |-> "raise", data |-> <<>>, resp |-> JsonResponse(200, <<>>),
                     exc |-> "UnicodeDecodeError"]
               [] body.kind \in {"garbage", "form"} ->
                    error(400, [error |-> "Invalid JSON format in text/plain content"])
               [] body.kind = "object" -> payload("dict", body.fields)
               [] OTHER -> payload(body.kind, <<>>)
        ELSE error(415, ("error" :> "Unsupported Media Type") @@ ("content_type" :> content_type))

\* data_or_error if isinstance(data_or_error, dict) else {}
AsDict(parsed) == IF parsed.tag = "dict" THEN parsed.data ELSE <<>>

\* payload.get(k, default)
GetDefault(d, k, default) == IF k \in DOMAIN d THEN d[k] ELSE default

\* Fault injection: the title built on the item type whatever the series
\* name.
BuildTitleAndBodyTypeOnly(payload) ==
    LET item_name == GetDefault(payload, "ItemName", <<"Unknown Item">>)
        item_type == GetDefault(payload, "ItemType", <<"Unknown Type">>)
        event_id == GetDefault(payload, "EventId", <<"Unknown Event">>)
        item_overview == GetDefault(payload, "ItemOverview", <<"No description provided">>)
    IN  [title |-> event_id \o <<" - ">> \o item_type \o <<": ">> \o item_name,
         body |-> item_overview]

\* _build_title_and_body_from_jellyfin(payload): (title, body).
BuildTitleAndBodyFromJellyfin(payload) ==
    LET item_name == GetDefault(payload, "ItemName", <<"Unknown Item">>)
        series_name == GetDefault(payload, "SeriesName", <<>>)
        item_type == GetDefault(payload, "ItemType", <<"Unknown Type">>)
        event_id == GetDefault(payload, "EventId", <<"Unknown Event">>)
        item_overview == GetDefault(payload, "ItemOverview", <<"No description provided">>)
    IN  [title |-> IF series_name # <<>>
                   THEN event_id \o <<" - ">> \o series_name \o <<": ">> \o item_name
                   ELSE event_id \o <<" - ">> \o item_type \o <<": ">> \o item_name,
         body |-> item_overview]

\* The first key of keys whose value in d is truthy, as a str | None with
\* trailing slashes stripped; None when there is none.
RECURSIVE FirstStripped(_, _)
FirstStripped(d, keys) ==
    IF keys = <<>> THEN Nothing
    ELSE IF Truthy(Get(d, keys[1])) THEN Some(RStrip(d[keys[1]], "/"))
    ELSE FirstStripped(d, Tail(keys))

\* _resolve_jellyfin_base_url(payload): headers, then payload, then the
\* environment.
ResolveJellyfinBaseUrl(headers, payload, e) ==
    LET h == FirstStripped(headers, <<"X-Jellyfin-URL", "X-Base-URL", "X-External-Base-Url">>)
        k == FirstStripped(payload, <<"ServerUrl", "JellyfinUrl", "JellyfinBaseUrl", "ExternalUrl">>)
    IN  IF h # Nothing THEN h
        ELSE IF k # Nothing THEN k
        ELSE FirstStripped(e, <<"JELLYFIN_BASE_URL">>)

\* ----------------------------------------------------------------- requests

WebhookPath == <<"/", "webhook">>
JfPath == <<"/", "jf-", "pushover-webhook">>
LegacyPath == <<"/", "pushover-webhook">>
HealthPath == <<"/", "health">>

\* A request slot before and between requests.
Idle ==
    [pc |-> "idle",
     req |-> [path |-> <<>>, method |-> "-", headers |-> <<>>,
              content_type |-> Nothing, body |-> [kind |-> "-", fields |-> <<>>]],
     endpoint |-> "-",
     message |-> <<>>, title |-> Nothing, image_url |-> Nothing, suffix |-> "-",
     temp_path |-> Nothing, img_path |-> Nothing,
     resp |-> [status |-> 0, body |-> <<>>, headers |-> <<>>, byHandler |-> FALSE],
     \* what the request has done so far
     created |-> {}, gets |-> 0, sent |-> <<>>, dispatches |-> 0, raised |-> <<>>,
     \* the steps begun, in their order, and whether raise_for_status() has
     \* passed the push API's response
     steps |-> <<>>, pushed |-> FALSE]

\* The slot's handler begins a step: its payload parser, its base URL
\* resolver, the image download or the dispatch.
Begin(slot, step) == [slot EXCEPT !.steps = Append(@, step)]

\* The view function returns resp: nothing of the request is left to run.
Return(slot, resp) == [slot EXCEPT !.pc = "done", !.resp = resp]

\* The try block of a handler is left with resp (by return or through an
\* except clause): the finally clause runs next, and has work to do only
\* when the handler holds a temporary path.
LeaveTry(slot, resp) ==
    [slot EXCEPT !.pc = IF slot.img_path # Nothing THEN "finally" ELSE "done",
                 !.resp = resp]

\* The request.path.endswith("/pushover-webhook") test of the legacy alias.
IsLegacyPath(path) == EndsWith(path, <<"/", "pushover-webhook">>)

\* make_response(resp, 200) with the deprecation header set.
WithDeprecation(resp) ==
    [resp EXCEPT !.headers = ("X-Deprecated-Route" :> "Use /jf-pushover-webhook")]

\* health(): GET /health.
Health(slot, e) ==
    LET cfg == Env(e)
        names == <<"PUSHOVER_API_TOKEN", "PUSHOVER_USER_KEY">>
        missing == SelectSeq(names, LAMBDA k : ~Truthy(cfg[k]))
        status == IF missing = <<>> THEN "healthy" ELSE "degraded"
    IN  Return(slot, JsonResponse(IF status = "healthy" THEN 200 ELSE 500,
                                  [status |-> status, missing |-> missing]))

\* Fault injection: the message fields read in the order msg, message, text.
MessageOfMsgFirst(data) == Or(Or(Get(data, "msg"), Get(data, "message")), Get(data, "text"))

\* webhook(): data.get("message") or data.get("msg") or data.get("text")
MessageOf(data) == Or(Or(Get(data, "message"), Get(data, "msg")), Get(data, "text"))

\* webhook(), up to the try block: method, auth, payload, message.
Webhook(slot, e) ==
    LET req == slot.req
        cfg == Env(e)
        auth == RequireBearerAuth(cfg["AUTH_TOKEN"], req.headers)
        parsed == ParsePayloadByContentType(req.content_type, req.body)
        data == AsDict(parsed)
        message == MessageOf(data)
        title == Get(data, "title")
        image_url == Or(Get(data, "image_url"), Get(data, "attachment_url"))
        parsing == Begin(slot, "parse")
    IN  IF req.method = "GET"
        THEN Return(slot, JsonResponse(200,
                 [status |-> "received GET",
                  message |-> "Use POST with JSON or form data to send a Pushover notification"]))
        ELSE IF Truthy(cfg["AUTH_TOKEN"]) /\ ~auth.ok
        THEN Return(slot, JsonResponse(401, [error |-> "Unauthorised", details |-> auth.err]))
        ELSE IF parsed.tag = "raise" THEN Return(parsing, EscapedResponse(parsed.exc))
        ELSE IF parsed.tag = "error" THEN Return(parsing, parsed.resp)
        ELSE IF ~Truthy(message)
        THEN Return(parsing, JsonResponse(400, [error |-> "Missing 'message'"]))
        ELSE [parsing EXCEPT !.message = message[1], !.title = title,
                          !.image_url = image_url, !.suffix = ".img",
                          !.pc = IF Truthy(image_url) THEN "get" ELSE "send"]

\* Fault injection: the ItemId validation left out.
ItemIdNeverMissing(item_id) == FALSE

\* The ItemId validation of jf_pushover_webhook(): not item_id.
ItemIdMissing(item_id) == ~Truthy(item_id)

\* f"{value}" of a str | None.
Format(o) == IF o = Nothing THEN <<"None">> ELSE o[1]

\* jf_pushover_webhook(), up to the try block: auth, method, payload,
\* title and body, ItemId, base URL, image URL.
JfPushoverWebhook(slot, e) ==
    LET req == slot.req
        cfg == Env(e)
        auth == RequireBearerAuth(cfg["AUTH_TOKEN"], req.headers)
        get == JsonResponse(200, [status |-> "received GET",
                                  message |-> "This is a webhook endpoint, use POST requests"])
        parsed == ParsePayloadByContentType(req.content_type, req.body)
        data == AsDict(parsed)
        tb == BuildTitleAndBodyFromJellyfin(data)
        item_id == Get(data, "ItemId")
        base_url == ResolveJellyfinBaseUrl(req.headers, data, e)
        parsing == Begin(slot, "parse")
        resolving == Begin(parsing, "resolve")
    IN  IF ~auth.ok THEN Return(slot, JsonResponse(401, [error |-> "Unauthorised"]))
        ELSE IF req.method = "GET"
        THEN Return(slot, IF IsLegacyPath(req.path) THEN WithDeprecation(get) ELSE get)
        ELSE IF parsed.tag = "raise" THEN Return(parsing, EscapedResponse(parsed.exc))
        ELSE IF parsed.tag = "error" THEN Return(parsing, parsed.resp)
        ELSE IF ItemIdMissing(item_id)
        THEN Return(parsing, JsonResponse(400, [error |-> "Missing ItemId in payload"]))
        ELSE IF ~Truthy(base_url)
        THEN Return(resolving, JsonResponse(400,
                 [error |-> "Jellyfin base URL not provided",
                  details |-> "Pass X-Jellyfin-URL header, a ServerUrl field in the payload, or set JELLYFIN_BASE_URL in the environment"]))
        ELSE [resolving EXCEPT !.message = tb.body, !.title = Some(tb.title),
                          !.image_url = Some(base_url[1] \o <<"/Items/">> \o Format(item_id)
                                                 \o <<"/Images/Primary">>),
                          !.suffix = ".jpg", !.pc = "get"]

\* Flask's routing of a request to its view function.
Route(req, e) ==
    LET slot == [Idle EXCEPT !.req = req]
    IN  CASE req.path = HealthPath -> Health([slot EXCEPT !.endpoint = "health"], e)
          [] req.path = WebhookPath -> Webhook([slot EXCEPT !.endpoint = "webhook"], e)
          [] req.path \in {JfPath, LegacyPath} ->
                 JfPushoverWebhook([slot EXCEPT !.endpoint = "jf"], e)

\* --------------------------------------------------------------- exceptions

\* An exception: its class, the text str(e) gives, and e.response's
\* status_code (None when the exception carries no response).
Exc(cls, code) == [cls |-> cls, text |-> cls, code |-> code]

\* The classes that derive from requests.exceptions.RequestException.
IsRequestException(exc) ==
    exc.cls \in {"ConnectionError", "Timeout", "HTTPError", "ChunkedEncodingError",
                 "requests.JSONDecodeError"}

\* The status codes Response.raise_for_status() turns into an HTTPError.
ErrorStatuses == {404, 503}

\* session.get / session.post followed by raise_for_status(): what it can
\* raise.
UpstreamErrors ==
    {Exc("ConnectionError", Nothing), Exc("Timeout", Nothing)}
        \cup {Exc("HTTPError", Some(c)) : c \in ErrorStatuses}

\* Writing the streamed body to the temporary file: what it can raise.
WriteErrors == {Exc("ChunkedEncodingError", Nothing), Exc("OSError", Nothing)}

\* resp.json() on a body that is no JSON: requests raises its own
\* JSONDecodeError (a RequestException) or, before 2.27, a plain ValueError.
JsonErrors == {Exc("requests.JSONDecodeError", Nothing), Exc("ValueError", Nothing)}

\* Fault injection: the upstream status code ignored.
WebhookRequestExceptionStatusFlat(exc) == 500

\* The status webhook() answers a RequestException with: 502 if code else 500.
WebhookRequestExceptionStatus(exc) ==
    IF exc.code # Nothing /\ exc.code[1] # 0 THEN 502 ELSE 500

\* The except clauses of webhook().
WebhookFailure(exc) ==
    IF IsRequestException(exc)
    THEN JsonResponse(WebhookRequestExceptionStatus(exc),
                      [error |-> "Failed to send Pushover notification", details |-> exc.text])
    ELSE JsonResponse(500, [error |-> "Internal error", details |-> exc.text])

\* The except clauses of jf_pushover_webhook().
JfFailure(exc) ==
    IF IsRequestException(exc)
    THEN JsonResponse(500, [error |-> "Failed to send Pushover notification", details |-> exc.text])
    ELSE JsonResponse(500, [error |-> "Internal error", details |-> exc.text])

\* exc is raised inside the try block of the slot's handler.
Raise(slot, exc) ==
    LeaveTry([slot EXCEPT !.raised = Append(@, exc)],
             IF slot.endpoint = "webhook" THEN WebhookFailure(exc) ELSE JfFailure(exc))

\* Fault injection: the configuration check failing only when both
\* credentials are absent.
CredentialsBothMissing(cfg) ==
    ~Truthy(cfg["PUSHOVER_API_TOKEN"]) /\ ~Truthy(cfg["PUSHOVER_USER_KEY"])

\* _send_pushover's configuration check.
CredentialsMissing(cfg) ==
    ~Truthy(cfg["PUSHOVER_API_TOKEN"]) \/ ~Truthy(cfg["PUSHOVER_USER_KEY"])

\* The form fields and the attachment _send_pushover posts.
PushoverData(cfg, message, title, img_path) ==
    [token |-> cfg["PUSHOVER_API_TOKEN"], user |-> cfg["PUSHOVER_USER_KEY"],
     message |-> message, title |-> IF Truthy(title) THEN title ELSE Nothing,
     attachment |-> img_path]

\* The 200 response of a handler to the push API's response r.
Success(slot, r) ==
    LET body == [status |-> "received POST",
                 pushover_response |-> IF slot.endpoint = "webhook" /\ r.json
                                       THEN "decoded JSON" ELSE "text"]
        resp == JsonResponse(200, body)
    IN  IF slot.endpoint = "jf" /\ IsLegacyPath(slot.req.path)
        THEN WithDeprecation(resp) ELSE resp

\* The push API's 2xx responses: whether they declare a JSON content type
\* and whether their body is JSON.
PushResponses == {[json |-> j, valid |-> v] : j \in BOOLEAN, v \in BOOLEAN}

\* ------------------------------------------------------------------- inputs

\* The union of two dicts with disjoint keys.
Merge(a, b) == [k \in DOMAIN a \cup DOMAIN b |-> IF k \in DOMAIN a THEN a[k] ELSE b[k]]

\* The dicts that give key k one of the values vs, or leave it out.
Optional(k, vs) == {<<>>} \cup {k :> v : v \in vs}

Product(A, B) == {Merge(a, b) : a \in A, b \in B}

Secret == <<"secret">>

\* os.environ: each name unset, empty or set.
Environments ==
    Product(Optional("AUTH_TOKEN", {<<>>, Secret}),
    Product(Optional("PUSHOVER_API_TOKEN", {<<"app-token">>}),
    Product({"PUSHOVER_USER_KEY" :> v : v \in {<<>>, <<"user-key">>}},
            Optional("JELLYFIN_BASE_URL", {<<"http://jf.env", "/">>}))))

AuthorizationHeaders ==
    Optional("Authorization",
             {<<"Bearer", " ", "secret">>, <<"BEARER", " ", " ", "secret">>,
              <<"Bearer", " ", "wrong">>, <<"Bearer", "secret">>})

BaseUrlHeaders ==
    Optional("X-Jellyfin-URL", {<<"/">>, <<"http://jf.local", "/">>})
        \cup {"X-Base-URL" :> <<"http://jf.base", "/", "/">>}

ContentTypes ==
    {Nothing, Some(<<"application/json">>),
     Some(<<"APPLICATION/JSON", "; charset=utf-8">>),
     Some(<<"application/x-www-form-urlencoded">>), Some(<<"text/plain">>),
     Some(<<"application/xml">>)}

\* Request bodies: bytes that are no UTF-8, text that is no JSON, the JSON
\* values null and [..], a JSON object and a form with the given fields.
Bodies(payloads) ==
    {[kind |-> k, fields |-> <<>>] : k \in {"badutf8", "garbage", "null", "list"}}
        \cup {[kind |-> k, fields |-> p] : k \in {"object", "form"}, p \in payloads}

WebhookPayloads ==
    Product(Optional("message", {<<>>, <<"hello">>}),
    Product(Optional("msg", {<<"hi">>}),
    Product(Optional("title", {<<"greet">>}),
            Optional("image_url", {<<"http://example/img.jpg">>}))))

\* Payloads with an ItemId that vary the fields the title and body are made
\* of: the series name unset, empty or set, the item type unset or set, and
\* the other three fields unset, set, or set with an empty overview.
ComposePayloads ==
    LET named == ("ItemName" :> <<"Episode 1">>) @@ ("EventId" :> <<"PlaybackStart">>)
    IN  Product({"ItemId" :> <<"123">>},
        Product(Optional("SeriesName", {<<>>, <<"Great Show">>}),
        Product(Optional("ItemType", {<<"Movie">>}),
                {<<>>, Merge(named, "ItemOverview" :> <<"A thrilling start">>),
                 Merge(named, "ItemOverview" :> <<>>)})))

JfPayloads ==
    Product(Optional("ItemId", {<<>>, <<"123">>}),
    Product(Optional("SeriesName", {<<"Great Show">>}),
            Optional("ServerUrl", {<<"http://jf.payload", "/">>})))
        \cup ComposePayloads

Request(path, method, headers, content_type, body) ==
    [path |-> path, method |-> method, headers |-> headers,
     content_type |-> content_type, body |-> body]

NoBody == [kind |-> "garbage", fields |-> <<>>]

Requests ==
    {Request(HealthPath, "GET", <<>>, Nothing, NoBody)}
    \cup {Request(WebhookPath, "GET", <<>>, Nothing, NoBody)}
    \cup {Request(WebhookPath, "POST", h, ct, b) :
            h \in AuthorizationHeaders, ct \in ContentTypes, b \in Bodies(WebhookPayloads)}
    \cup {Request(p, "GET", h, Nothing, NoBody) :
            p \in {JfPath, LegacyPath}, h \in AuthorizationHeaders}
    \cup {Request(p, "POST", h, ct, b) :
            p \in {JfPath, LegacyPath},
            h \in Product(AuthorizationHeaders, BaseUrlHeaders),
            ct \in ContentTypes, b \in Bodies(JfPayloads)}

\* The names tempfile.mkstemp can give a file.
Paths == 1..MaxPaths

Slots == {1}

\* The workers of a deployment that handle requests at the same time, and
\* what they are sent: the environment fully configured, an authorised POST
\* to /webhook with an image_url, and an authorised POST to the compatibility
\* endpoint with an ItemId and a ServerUrl.  Two workers give every pair of
\* requests that overlap in time.
Workers == {1, 2}

WorkerEnvironments ==
    {Merge("AUTH_TOKEN" :> Secret,
     Merge("PUSHOVER_API_TOKEN" :> <<"app-token">>, "PUSHOVER_USER_KEY" :> <<"user-key">>))}

WorkerRequests ==
    LET h == "Authorization" :> <<"Bearer", " ", "secret">>
        json == Some(<<"application/json">>)
    IN  {Request(WebhookPath, "POST", h, json,
                 [kind |-> "object",
                  fields |-> Merge("message" :> <<"hello">>,
                                   "image_url" :> <<"http://example/img.jpg">>)]),
         Request(JfPath, "POST", h, json,
                 [kind |-> "object",
                  fields |-> Merge("ItemId" :> <<"123">>,
                                   "ServerUrl" :> <<"http://jf.payload", "/">>)])}

\* ------------------------------------------------------------------ actions

Init ==
    /\ env \in Environments
    /\ files = {}
    /\ st = [r \in Slots |-> Idle]

\* The environment is changed (by the operator, by a test) while no request
\* is being handled.
SetEnv ==
    /\ \A r \in Slots : st[r].pc = "idle"
    /\ env' \in Environments \ {env}
    /\ UNCHANGED <<files, st>>

\* A request arrives and its view function runs up to its first upstream
\* call or to its return.
Receive(r) ==
    /\ st[r].pc = "idle"
    /\ \E req \in Requests : st' = [st EXCEPT ![r] = Route(req, env)]
    /\ UNCHANGED <<env, files>>

\* _download_image_to_temp: session.get(image_url, stream=True) and
\* r.raise_for_status().
ImageGet(r) ==
    /\ st[r].pc = "get"
    /\ LET slot == Begin([st[r] EXCEPT !.gets = @ + 1], "fetch")
       IN  \/ st' = [st EXCEPT ![r] = [slot EXCEPT !.pc = "mkstemp"]]
           \/ \E exc \in UpstreamErrors : st' = [st EXCEPT ![r] = Raise(slot, exc)]
    /\ UNCHANGED <<env, files>>

\* Fault injection: a temporary name that does not depend on the files
\* that exist.
MkstempFixedName(existing) == CHOOSE p \in Paths : \A q \in Paths : p <= q

\* The name tempfile.mkstemp gives the file it creates (O_CREAT | O_EXCL):
\* one that no existing file has.
MkstempName(existing) ==
    CHOOSE p \in Paths \ existing : \A q \in Paths \ existing : p <= q

\* _download_image_to_temp: tempfile.mkstemp creates a file under a name no
\* file has, or fails.
Mkstemp(r) ==
    /\ st[r].pc = "mkstemp"
    /\ \/ /\ Paths \ files # {}
          /\ LET path == MkstempName(files)
             IN  /\ files' = files \cup {path}
                 /\ st' = [st EXCEPT ![r] = [st[r] EXCEPT !.pc = "write",
                                                          !.temp_path = Some(path),
                                                          !.created = @ \cup {path}]]
       \/ /\ st' = [st EXCEPT ![r] = Raise(st[r], Exc("OSError", Nothing))]
          /\ UNCHANGED files
    /\ UNCHANGED env

\* _download_image_to_temp: the chunks of the response are written to the
\* file and its path is returned to the handler, or the stream or the
\* write fails.
WriteChunks(r) ==
    /\ st[r].pc = "write"
    /\ \/ st' = [st EXCEPT ![r] = [st[r] EXCEPT !.pc = "send", !.img_path = st[r].temp_path]]
       \/ \E exc \in WriteErrors : st' = [st EXCEPT ![r] = Raise(st[r], exc)]
    /\ UNCHANGED <<env, files>>

\* _send_pushover and the rest of the try block: the configuration check,
\* open(img_path), session.post, raise_for_status, and the 200 response.
SendPushover(r) ==
    /\ st[r].pc = "send"
    /\ LET slot == Begin([st[r] EXCEPT !.dispatches = @ + 1], "dispatch")
           cfg == Env(env)
           posted == [slot EXCEPT !.sent = Append(@, PushoverData(cfg, slot.message,
                                                                  slot.title, slot.img_path))]
           passed == [posted EXCEPT !.pushed = TRUE]
       IN  IF CredentialsMissing(cfg)
           THEN st' = [st EXCEPT ![r] = Raise(slot, Exc("RuntimeError", Nothing))]
           ELSE IF slot.img_path # Nothing /\ slot.img_path[1] \notin files
           THEN st' = [st EXCEPT ![r] = Raise(slot, Exc("FileNotFoundError", Nothing))]
           ELSE \/ \E exc \in UpstreamErrors : st' = [st EXCEPT ![r] = Raise(posted, exc)]
                \/ \E resp \in PushResponses :
                     IF slot.endpoint = "webhook" /\ resp.json /\ ~resp.valid
                     THEN \E exc \in JsonErrors : st' = [st EXCEPT ![r] = Raise(passed, exc)]
                     ELSE st' = [st EXCEPT ![r] = LeaveTry(passed, Success(passed, resp))]
    /\ UNCHANGED <<env, files>>

\* The finally clause: os.remove(img_path), its failure suppressed.
Finally(r) ==
    /\ st[r].pc = "finally"
    /\ \/ files' = files \ {st[r].img_path[1]}
       \/ UNCHANGED files
    /\ st' = [st EXCEPT ![r] = [st[r] EXCEPT !.pc = "done"]]
    /\ UNCHANGED env

\* The response is sent and nothing of the request is kept.
Respond(r) ==
    /\ st[r].pc = "done"
    /\ st' = [st EXCEPT ![r] = Idle]
    /\ UNCHANGED <<env, files>>

Next ==
    \/ SetEnv
    \/ \E r \in Slots :
         \/ Receive(r)
         \/ ImageGet(r)
         \/ Mkstemp(r)
         \/ WriteChunks(r)
         \/ SendPushover(r)
         \/ Finally(r)
         \/ Respond(r)

Spec == Init /\ [][Next]_vars

\* Several workers share the file system and the environment.
InitWorkers ==
    /\ env \in WorkerEnvironments
    /\ files = {}
    /\ st = [r \in Workers |-> Idle]

\* A request arrives at a worker that handles none.
ReceiveAt(r) ==
    /\ st[r].pc = "idle"
    /\ \E req \in WorkerRequests : st' = [st EXCEPT ![r] = Route(req, env)]
    /\ UNCHANGED <<env, files>>

NextWorkers ==
    \E r \in Workers :
        \/ ReceiveAt(r)
        \/ ImageGet(r)
        \/ Mkstemp(r)
        \/ WriteChunks(r)
        \/ SendPushover(r)
        \/ Finally(r)
        \/ Respond(r)

SpecWorkers == InitWorkers /\ [][NextWorkers]_vars

\* ------------------------------------------------------------------- claims

\* The requests whose handler has returned.
Returned == {r \in Slots : st[r].pc = "done"}

\* The value of a key of a response's JSON body, NoKey when it has none.
Field(resp, k) == IF k \in DOMAIN resp.body THEN resp.body[k] ELSE NoKey

Blanks(n) == [i \in 1..n |-> " "]

\* The request carries a bearer credential equal to the configured, non-empty
\* AUTH_TOKEN: its Authorization header is the scheme Bearer (in any case),
\* blanks, and the token.
CarriesToken(req, e) ==
    /\ "AUTH_TOKEN" \in DOMAIN e
    /\ e["AUTH_TOKEN"] # <<>>
    /\ "Authorization" \in DOMAIN req.headers
    /\ LET auth == req.headers["Authorization"]
       IN  \E n \in 1..Len(auth) :
             \E scheme \in {"Bearer", "BEARER", "bearer"} :
               auth = <<scheme>> \o Blanks(n) \o e["AUTH_TOKEN"]

\* C1: a request that reached the image-fetch step created at most one
\* temporary file, and no file it created exists when its handler returns.
C1_TempFileReleased ==
    \A r \in Returned :
        st[r].gets >= 1 =>
            /\ Cardinality(st[r].created) <= 1
            /\ st[r].created \cap files = {}

\* C2: a request to /jf-pushover-webhook or /pushover-webhook that does not
\* carry the configured token is answered 401 {"error": "Unauthorised"}
\* (no details) at once, without an image fetch or a push dispatch.
C2_CompatRequiresBearer ==
    \A r \in Slots :
        (st[r].endpoint = "jf" /\ ~CarriesToken(st[r].req, env)) =>
            /\ st[r].pc = "done"
            /\ st[r].resp.status = 401
            /\ st[r].resp.byHandler
            /\ st[r].resp.body = [error |-> "Unauthorised"]
            /\ st[r].gets = 0
            /\ st[r].dispatches = 0
            /\ st[r].sent = <<>>

\* A compatibility POST made while AUTH_TOKEN is unset, with a well-formed
\* bearer header, has been answered 401.
C2_Witness ==
    \E r \in Returned :
        /\ st[r].endpoint = "jf"
        /\ st[r].req.method = "POST"
        /\ "AUTH_TOKEN" \notin DOMAIN env
        /\ Get(st[r].req.headers, "Authorization") = Some(<<"Bearer", " ", "secret">>)
        /\ st[r].resp.status = 401

\* C3: POST /webhook passes the auth step whatever its header when no token
\* is configured; with a token configured it passes iff it carries the
\* token, and is otherwise answered 401 with details "Missing or invalid
\* Authorization header" or "Service not configured".
C3_WebhookOptionalAuth ==
    \A r \in Returned :
        (st[r].endpoint = "webhook" /\ st[r].req.method = "POST") =>
            LET configured == "AUTH_TOKEN" \in DOMAIN env /\ env["AUTH_TOKEN"] # <<>>
                rejected == st[r].resp.status = 401
            IN  /\ ~configured => ~rejected
                /\ configured => (rejected <=> ~CarriesToken(st[r].req, env))
                /\ rejected =>
                     Field(st[r].resp, "details") \in
                         {"Missing or invalid Authorization header", "Service not configured"}

\* The payload parser's result for a request.
Parsed(req) == ParsePayloadByContentType(req.content_type, req.body)

\* The parser accepts the request's body: it neither answers with an error
\* nor raises.
Parseable(req) == Parsed(req).tag \notin {"error", "raise"}

\* C4 as stated: a compatibility POST whose parseable payload has no ItemId
\* is answered 400 "Missing ItemId in payload", whatever its auth state.
C4_MissingItemIdAnyAuth ==
    \A r \in Returned :
        (/\ st[r].endpoint = "jf"
         /\ st[r].req.method = "POST"
         /\ Parseable(st[r].req)
         /\ "ItemId" \notin DOMAIN AsDict(Parsed(st[r].req))) =>
            /\ st[r].resp.status = 400
            /\ Field(st[r].resp, "error") = "Missing ItemId in payload"

\* C4 as amended: a compatibility POST that carries the configured token and
\* whose parseable payload has no ItemId is answered 400 "Missing ItemId in
\* payload", whatever base URL it names.
C4_MissingItemIdAuthorised ==
    \A r \in Slots :
        (/\ st[r].endpoint = "jf"
         /\ st[r].req.method = "POST"
         /\ CarriesToken(st[r].req, env)
         /\ Parseable(st[r].req)
         /\ "ItemId" \notin DOMAIN AsDict(Parsed(st[r].req))) =>
            /\ st[r].pc = "done"
            /\ st[r].resp.status = 400
            /\ st[r].resp.body = [error |-> "Missing ItemId in payload"]

\* An authorised compatibility POST with a base URL header and a JSON payload
\* without ItemId has been answered 400.
C4_Witness ==
    \E r \in Returned :
        /\ st[r].endpoint = "jf"
        /\ st[r].req.method = "POST"
        /\ CarriesToken(st[r].req, env)
        /\ st[r].req.body.kind = "object"
        /\ Parseable(st[r].req)
        /\ "ItemId" \notin DOMAIN st[r].req.body.fields
        /\ "X-Jellyfin-URL" \in DOMAIN st[r].req.headers
        /\ st[r].resp.status = 400

\* C5: every response on /pushover-webhook carries X-Deprecated-Route: Use
\* /jf-pushover-webhook, and no response on /jf-pushover-webhook does.
C5_DeprecationHeader ==
    \A r \in Returned :
        st[r].endpoint = "jf" =>
            /\ st[r].req.path = LegacyPath =>
                 Get(st[r].resp.headers, "X-Deprecated-Route") = Some("Use /jf-pushover-webhook")
            /\ st[r].req.path = JfPath =>
                 "X-Deprecated-Route" \notin DOMAIN st[r].resp.headers

\* A failure of the network: a transport error, a timeout, an HTTP error
\* status, a broken stream.
NetworkFailure(exc) ==
    exc.cls \in {"ConnectionError", "Timeout", "HTTPError", "ChunkedEncodingError"}

\* C6: a failure in the fetch or dispatch step is answered 502 on /webhook
\* when it is a network failure carrying an upstream status code, and 500 in
\* every other case on /webhook and in every case on the compatibility
\* endpoint.
C6_FailureStatus ==
    \A r \in Slots :
        (st[r].pc \in {"finally", "done"} /\ st[r].raised # <<>>) =>
            LET exc == st[r].raised[1]
            IN  st[r].resp.status =
                    IF st[r].endpoint = "webhook" /\ NetworkFailure(exc) /\ exc.code # Nothing
                    THEN 502 ELSE 500

\* A POST to /webhook whose image download met an HTTP error status has been
\* answered 502.
C6_Witness ==
    \E r \in Returned :
        /\ st[r].endpoint = "webhook"
        /\ st[r].gets = 1
        /\ st[r].dispatches = 0
        /\ st[r].raised = <<Exc("HTTPError", Some(404))>>
        /\ st[r].resp.status = 502

\* The request's body is a JSON object with a message field, and the payload
\* parser yields that object (the body is declared application/json or
\* text/plain).
JsonWithMessage(req) ==
    /\ req.body.kind = "object"
    /\ "message" \in DOMAIN req.body.fields
    /\ Parsed(req).tag = "dict"
    /\ Parsed(req).data = req.body.fields

\* C7 as stated: every POST to /webhook of a JSON body with a message field
\* is answered 200 and forwards that message value to the push dispatcher.
C7_MessageAlwaysForwarded ==
    \A r \in Returned :
        (/\ st[r].endpoint = "webhook"
         /\ st[r].req.method = "POST"
         /\ JsonWithMessage(st[r].req)) =>
            /\ st[r].resp.status = 200
            /\ Len(st[r].sent) = 1
            /\ st[r].sent[1].message = st[r].req.body.fields["message"]

\* The request passes the auth step of /webhook: no token is configured, or
\* it carries the configured token.
PassesOptionalAuth(req, e) ==
    ("AUTH_TOKEN" \in DOMAIN e /\ e["AUTH_TOKEN"] # <<>>) => CarriesToken(req, e)

\* C7 as amended: a POST to /webhook of a JSON body with a non-empty message
\* field that passes the auth step forwards exactly
\* that message value in the one push dispatch it makes, and is answered 200
\* unless its image fetch or its push dispatch fails.
C7_MessageForwarded ==
    \A r \in Returned :
        (/\ st[r].endpoint = "webhook"
         /\ st[r].req.method = "POST"
         /\ JsonWithMessage(st[r].req)
         /\ st[r].req.body.fields["message"] # <<>>
         /\ PassesOptionalAuth(st[r].req, env)) =>
            /\ Len(st[r].sent) <= 1
            /\ \A i \in 1..Len(st[r].sent) :
                 st[r].sent[i].message = st[r].req.body.fields["message"]
            /\ st[r].raised = <<>> =>
                 /\ st[r].resp.status = 200
                 /\ Len(st[r].sent) = 1

\* A POST to /webhook of a JSON body with message and msg fields has been
\* answered 200 after one dispatch.
C7_Witness ==
    \E r \in Returned :
        /\ st[r].endpoint = "webhook"
        /\ JsonWithMessage(st[r].req)
        /\ "msg" \in DOMAIN st[r].req.body.fields
        /\ st[r].resp.status = 200
        /\ Len(st[r].sent) = 1
        /\ st[r].sent[1].message = <<"hello">>

\* The sources of the base URL of a request in their order of precedence, as
\* str | None values: the three headers, the four payload fields, the
\* environment.
BaseUrlSources(req, e) ==
    LET data == AsDict(Parsed(req))
    IN  <<Get(req.headers, "X-Jellyfin-URL"), Get(req.headers, "X-Base-URL"),
          Get(req.headers, "X-External-Base-Url"),
          Get(data, "ServerUrl"), Get(data, "JellyfinUrl"), Get(data, "JellyfinBaseUrl"),
          Get(data, "ExternalUrl"), Get(e, "JELLYFIN_BASE_URL")>>

\* A source holds a usable value: something is left of it once its trailing
\* slashes are stripped.
Usable(o) == o # Nothing /\ RStrip(o[1], "/") # <<>>

\* C8: the image URL of a compatibility POST is built on the first non-empty
\* source of the base URL with its trailing slashes stripped, and a request
\* that has a usable value in some source is never answered with the
\* base-URL 400.
C8_BaseUrlPrecedence ==
    \A r \in Slots :
        (st[r].endpoint = "jf" /\ st[r].req.method = "POST") =>
            LET sources == BaseUrlSources(st[r].req, env)
                data == AsDict(Parsed(st[r].req))
            IN  /\ st[r].image_url # Nothing =>
                     \E i \in 1..Len(sources) :
                        /\ Truthy(sources[i])
                        /\ \A j \in 1..(i - 1) : ~Truthy(sources[j])
                        /\ st[r].image_url[1] =
                             RStrip(sources[i][1], "/") \o <<"/Items/">> \o data["ItemId"]
                                 \o <<"/Images/Primary">>
                /\ (\E i \in 1..Len(sources) : Usable(sources[i])) =>
                     Field(st[r].resp, "error") # "Jellyfin base URL not provided"

\* C9: every response to a request on /webhook or the compatibility endpoint
\* is made by the handler itself, and one that reports a failure has an
\* error key in its JSON body.
C9_NoFailureEscapes ==
    \A r \in Returned :
        st[r].endpoint \in {"webhook", "jf"} =>
            /\ st[r].resp.byHandler
            /\ st[r].resp.status # 200 => "error" \in DOMAIN st[r].resp.body

\* The push credentials the environment does not set to a non-empty value.
AbsentCredentials(e) ==
    {k \in {"PUSHOVER_API_TOKEN", "PUSHOVER_USER_KEY"} : k \notin DOMAIN e \/ e[k] = <<>>}

Range(f) == {f[i] : i \in DOMAIN f}

\* C10: GET /health answers 200 "healthy" iff both push credentials are
\* non-empty in the environment of the request and otherwise 500 "degraded"
\* with missing naming exactly the absent ones; and a dispatch attempted
\* while a credential is absent sends nothing to the push API, fails with
\* the configuration error and gives the caller a 500.
C10_CredentialsAtUse ==
    \A r \in Slots :
        /\ (st[r].endpoint = "health" /\ st[r].pc = "done") =>
             LET absent == AbsentCredentials(env)
             IN  /\ st[r].resp.status = (IF absent = {} THEN 200 ELSE 500)
                 /\ st[r].resp.body.status = (IF absent = {} THEN "healthy" ELSE "degraded")
                 /\ Range(st[r].resp.body.missing) = absent
                 /\ Len(st[r].resp.body.missing) = Cardinality(absent)
        /\ (st[r].dispatches >= 1 /\ AbsentCredentials(env) # {}) =>
             /\ st[r].sent = <<>>
             /\ st[r].raised = <<Exc("RuntimeError", Nothing)>>
             /\ st[r].pc \in {"finally", "done"}
             /\ st[r].resp.status = 500
             /\ "error" \in DOMAIN st[r].resp.body

\* A compatibility POST fetched its image and attempted the dispatch while
\* only the user key was empty: nothing was sent and the answer is 500.
C10_Witness ==
    \E r \in Slots :
        /\ st[r].endpoint = "jf"
        /\ st[r].dispatches = 1
        /\ st[r].img_path # Nothing
        /\ AbsentCredentials(env) = {"PUSHOVER_USER_KEY"}
        /\ st[r].sent = <<>>
        /\ st[r].resp.status = 500

\* The content type a request declares, by the prefix of its lower-cased
\* Content-Type value.
Declared(req) ==
    LET ct == IF req.content_type = Nothing THEN <<>> ELSE Lower(req.content_type[1])
    IN  CASE ct # <<>> /\ ct[1] = "application/json" -> "json"
          [] ct # <<>> /\ ct[1] = "application/x-www-form-urlencoded" -> "form"
          [] ct # <<>> /\ ct[1] = "text/plain" -> "text"
          [] OTHER -> "other"

\* The request reaches the payload parser of its endpoint: it is a POST that
\* passes the endpoint's auth step.
ReachesParser(slot, e) ==
    /\ slot.req.method = "POST"
    /\ \/ slot.endpoint = "webhook" /\ PassesOptionalAuth(slot.req, e)
       \/ slot.endpoint = "jf" /\ CarriesToken(slot.req, e)

\* The parser's result is the error response with this status and text.
ParserError(parsed, status, text) ==
    /\ parsed.tag = "error"
    /\ parsed.resp.status = status
    /\ Field(parsed.resp, "error") = text

\* C11: on both POST endpoints the parser's outcome follows the declared
\* content type: application/json gives the parsed payload or 400 "Invalid
\* JSON payload"; a form gives its fields; text/plain gives the JSON parsed
\* from the body or, on any decoding or parsing failure, 400 "Invalid JSON
\* format in text/plain content"; anything else gives 415 "Unsupported Media
\* Type" with the content type echoed; and a parser error is the response,
\* with no fetch and no dispatch.
C11_ParserOutcome ==
    \A r \in Slots :
        ReachesParser(st[r], env) =>
            LET req == st[r].req
                parsed == Parsed(req)
                declared == Declared(req)
            IN  /\ declared = "json" =>
                     \/ parsed.tag = "dict" /\ req.body.kind = "object"
                                            /\ parsed.data = req.body.fields
                     \/ parsed.tag = "list" /\ req.body.kind = "list"
                     \/ ParserError(parsed, 400, "Invalid JSON payload")
                /\ declared = "form" =>
                     /\ parsed.tag = "dict"
                     /\ req.body.kind = "form" => parsed.data = req.body.fields
                /\ declared = "text" =>
                     IF req.body.kind \in {"object", "list", "null"}
                     THEN /\ parsed.tag = (IF req.body.kind = "object" THEN "dict"
                                           ELSE req.body.kind)
                          /\ req.body.kind = "object" => parsed.data = req.body.fields
                     ELSE ParserError(parsed, 400, "Invalid JSON format in text/plain content")
                /\ declared = "other" =>
                     /\ ParserError(parsed, 415, "Unsupported Media Type")
                     /\ Field(parsed.resp, "content_type") = req.content_type
                /\ parsed.tag = "error" =>
                     /\ st[r].pc = "done"
                     /\ st[r].resp = parsed.resp
                     /\ st[r].gets = 0
                     /\ st[r].dispatches = 0

\* The value of a payload field, or the default that stands for it when the
\* payload does not have the field.
FieldOr(data, k, default) == IF k \in DOMAIN data THEN data[k] ELSE <<default>>

\* The title the composer is to give a payload.
TitleFor(data) ==
    LET head == FieldOr(data, "EventId", "Unknown Event") \o <<" - ">>
        tail == <<": ">> \o FieldOr(data, "ItemName", "Unknown Item")
    IN  IF "SeriesName" \in DOMAIN data /\ Len(data["SeriesName"]) > 0
        THEN head \o data["SeriesName"] \o tail
        ELSE head \o FieldOr(data, "ItemType", "Unknown Type") \o tail

\* C12: for every payload the composer yields the title "{EventId} -
\* {SeriesName}: {ItemName}" when SeriesName is non-empty and "{EventId} -
\* {ItemType}: {ItemName}" otherwise, absent fields replaced by their
\* defaults, and the body ItemOverview (default "No description provided");
\* every push a compatibility POST makes carries exactly that title and
\* body, and a POST answered 200 has made one.
C12_Compose ==
    \A r \in Slots :
        (st[r].endpoint = "jf" /\ st[r].req.method = "POST") =>
            LET data == AsDict(Parsed(st[r].req))
                body == FieldOr(data, "ItemOverview", "No description provided")
            IN  /\ BuildTitleAndBodyFromJellyfin(data) = [title |-> TitleFor(data), body |-> body]
                /\ \A i \in 1..Len(st[r].sent) :
                     /\ st[r].sent[i].title = Some(TitleFor(data))
                     /\ st[r].sent[i].message = body
                /\ st[r].resp.status = 200 => Len(st[r].sent) = 1

\* A compatibility POST whose payload has an empty SeriesName and the item
\* type Movie has been answered 200 after a push titled by the item type.
C12_Witness ==
    \E r \in Returned :
        /\ st[r].endpoint = "jf"
        /\ st[r].resp.status = 200
        /\ Get(st[r].req.body.fields, "SeriesName") = Some(<<>>)
        /\ Len(st[r].sent) = 1
        /\ st[r].sent[1].title = Some(<<"PlaybackStart", " - ", "Movie", ": ", "Episode 1">>)
        /\ st[r].sent[1].message = <<"A thrilling start">>

\* The place of a step in the pipeline.
Rank(step) ==
    CASE step = "parse" -> 1 [] step = "resolve" -> 2 [] step = "fetch" -> 3
      [] step = "dispatch" -> 4

\* The steps of the slot have been begun in the pipeline's order, none twice.
InPipelineOrder(slot) ==
    \A i, j \in 1..Len(slot.steps) : i < j => Rank(slot.steps[i]) < Rank(slot.steps[j])

\* The steps that must have succeeded before the slot's push POST: the
\* payload parsed and, where an image is to be attached, fetched to a file
\* the request created.
EarlierStepsSucceeded(slot) ==
    /\ slot.steps[1] = "parse"
    /\ Parsed(slot.req).tag \in {"dict", "list", "null"}
    /\ (slot.endpoint = "jf" \/ Truthy(slot.image_url)) =>
          /\ slot.gets = 1
          /\ slot.img_path # Nothing
          /\ slot.img_path[1] \in slot.created
          /\ slot.sent[1].attachment = slot.img_path
    /\ slot.endpoint = "jf" => \E i \in 1..Len(slot.steps) : slot.steps[i] = "resolve"

\* C13: within one request the steps are begun only in the order parse,
\* resolve, fetch, dispatch; the image GET and the push POST are each issued
\* at most once; the push POST is issued only after every required earlier
\* step succeeded (on the compatibility endpoint only after a successful
\* image fetch); and the response to a POST is 200 if and only if the push
\* POST succeeded, a single error response otherwise.
C13_Pipeline ==
    \A r \in Slots :
        st[r].req.method = "POST" =>
            /\ InPipelineOrder(st[r])
            /\ st[r].gets <= 1
            /\ Len(st[r].sent) <= 1
            /\ Len(st[r].sent) = 1 => EarlierStepsSucceeded(st[r])
            /\ st[r].pushed => Len(st[r].sent) = 1
            /\ st[r].pc = "done" =>
                  /\ st[r].resp.status = 200 <=> st[r].pushed
                  /\ st[r].resp.status # 200 => st[r].resp.status >= 400

\* The requests being handled that hold the temporary path p: mkstemp gave
\* it to them and their finally clause has not run yet.
Holders(p) ==
    {r \in DOMAIN st : st[r].pc \in {"write", "send", "finally"} /\ st[r].temp_path = Some(p)}

\* C14: in every interleaving of the workers' steps, no two requests hold
\* the same temporary path at the same time; the path a request holds,
\* attaches and is about to remove is the file it created itself, and that
\* file exists for as long as the request holds it, so that no request
\* attaches or removes the image of another.
C14_TempPathsApart ==
    /\ \A p \in Paths : Cardinality(Holders(p)) <= 1
    /\ \A r \in DOMAIN st :
         /\ st[r].pc \in {"write", "send", "finally"} =>
               /\ st[r].temp_path # Nothing
               /\ st[r].temp_path[1] \in st[r].created \cap files
               /\ st[r].img_path \in {Nothing, st[r].temp_path}
         /\ st[r].pc = "finally" => st[r].img_path = st[r].temp_path
         /\ \A i \in 1..Len(st[r].sent) :
               /\ st[r].sent[i].attachment = st[r].temp_path
               /\ st[r].temp_path # Nothing
               /\ st[r].temp_path[1] \in st[r].created

\* Two requests hold different temporary files at the same time, one of
\* them about to dispatch and the other about to clean up.
C14_Witness ==
    \E r1, r2 \in DOMAIN st :
        /\ st[r1].pc = "send" /\ st[r2].pc = "finally"
        /\ st[r1].img_path # Nothing /\ st[r2].img_path # Nothing
        /\ st[r1].img_path # st[r2].img_path
        /\ {st[r1].img_path[1], st[r2].img_path[1]} \subseteq files

====
